---- MODULE Spec2Model ----
(***************************************************************************)
(* Model of otadump's extraction engine (src/cmd.rs): Cmd::run and the     *)
(* scoped worker pool, Cmd::run_op, the extent resolver, the SHA-256       *)
(* check and the literal-stream write.                                     *)
(*                                                                         *)
(* Bytes are small naturals, usize is UsizeBits wide, the payload blob is  *)
(* the byte sequence 1, 2, ..., BlobLen, and an output buffer is a         *)
(* sequence of bytes that starts zeroed (File::set_len).                   *)
(***************************************************************************)
EXTENDS Integers, Sequences, FiniteSets, TLC

\* ------------------------------------------------------------------ bounds
\* Width of usize in bits; arithmetic on usize wraps modulo 2^UsizeBits in a
\* build without overflow checks and panics in a build with them.
UsizeBits == 5
\* Largest partition, in blocks of the largest block size.
MaxBlocks == 3
\* Worker threads of the machine (the pool's default size).
MaxThreads == 3

UsizeMod == 2^UsizeBits

\* Option<T>: None is the empty tuple, Some(v) the one-element tuple.
None == <<>>
Some(v) == <<v>>
IsNone(o) == Len(o) = 0
IsSome(o) == Len(o) = 1
Unwrap(o) == o[1]

Min(a, b) == IF a <= b THEN a ELSE b

\* ------------------------------------------------------------------ payload
\* The data blob of the payload (payload.data), read-only and shared.
BlobLen == 2 * MaxBlocks + 2
PayloadData == [i \in 1..BlobLen |-> i]

\* payload.data.get(offset..offset + data_len): None when the range is not
\* inside the blob. The sum is a usize sum: it panics in a build with
\* overflow checks and wraps otherwise (a wrapped end is below the start, so
\* the range is rejected).
SliceSource(offset, data_len, checks) ==
    LET sum == offset + data_len
        end == sum % UsizeMod
    IN  IF sum >= UsizeMod /\ checks
        THEN [res |-> "panic: attempt to add with overflow", data |-> <<>>]
        ELSE IF offset <= end /\ end <= Len(PayloadData)
             THEN [res |-> "Ok", data |-> SubSeq(PayloadData, offset + 1, end)]
             ELSE [res |-> "data offset exceeds payload size", data |-> <<>>]

\* Sha256::digest, abstracted to a one-byte digest of the data: a weighted
\* sum of the bytes, so that it depends on every byte and on their order.
RECURSIVE WeightedSum(_, _)
WeightedSum(data, i) ==
    IF i > Len(data) THEN 0 ELSE (i + 1) * data[i] + WeightedSum(data, i + 1)

Sha256Digest(data) == <<(7 + WeightedSum(data, 1)) % 251>>

\* Cmd::verify_sha256: the digest of the data must equal the expected hash
\* (a byte string of any length).
verify_sha256(data, exp_hash) ==
    IF Sha256Digest(data) = exp_hash THEN "Ok" ELSE "hash mismatch"

\* The streaming decompressors (BzDecoder, LzmaReader), abstracted to a
\* run-length decoder: the data is a sequence of (count, byte) pairs, each
\* expanding to count copies of byte; a trailing unpaired byte is a
\* truncated input, reported as a read error once the decoded bytes have
\* been delivered.
RECURSIVE Repeat(_, _)
Repeat(b, n) == IF n = 0 THEN <<>> ELSE <<b>> \o Repeat(b, n - 1)

RECURSIVE DecodePairs(_, _)
DecodePairs(data, i) ==
    IF i + 1 > Len(data) THEN <<>>
    ELSE Repeat(data[i + 1], data[i]) \o DecodePairs(data, i + 2)

Decompress(data) ==
    [bytes |-> DecodePairs(data, 1), err |-> Len(data) % 2 = 1, partial |-> TRUE]

\* A byte slice as a reader: it never fails, and its read_exact copies
\* nothing when fewer bytes are left than asked for.
SliceReader(data) == [bytes |-> data, err |-> FALSE, partial |-> FALSE]

\* ------------------------------------------------------------------ extents
\* Cmd::extract_dst_extents: the byte range of every destination extent, in
\* declared order, stopping at the first extent that fails. The products
\* and the sum are usize arithmetic. A granted range is the raw slice
\* [off, off + len) of the partition pointer; nothing compares it with the
\* ranges granted to other operations.
RECURSIVE extract_from(_, _, _, _, _)
extract_from(dst_extents, i, partition_len, block_size, checks) ==
    IF i > Len(dst_extents) THEN [res |-> "Ok", ranges |-> <<>>]
    ELSE
    LET extent == dst_extents[i] IN
    IF IsNone(extent.start_block)
    THEN [res |-> "start_block not defined in extent", ranges |-> <<>>]
    ELSE IF IsNone(extent.num_blocks)
    THEN [res |-> "num_blocks not defined in extent", ranges |-> <<>>]
    ELSE
    LET start_block == Unwrap(extent.start_block)
        num_blocks == Unwrap(extent.num_blocks)
        partition_offset == (start_block * block_size) % UsizeMod
        extent_len == (num_blocks * block_size) % UsizeMod
        overflow == \/ start_block * block_size >= UsizeMod
                    \/ num_blocks * block_size >= UsizeMod
                    \/ partition_offset + extent_len >= UsizeMod
    IN  IF overflow /\ checks
        THEN [res |-> "panic: arithmetic overflow", ranges |-> <<>>]
        ELSE IF ~((partition_offset + extent_len) % UsizeMod <= partition_len)
        THEN [res |-> "extent exceeds partition size", ranges |-> <<>>]
        ELSE LET rest == extract_from(dst_extents, i + 1, partition_len,
                                      block_size, checks)
             IN  IF rest.res = "Ok"
                 THEN [res |-> "Ok",
                       ranges |-> <<[off |-> partition_offset, len |-> extent_len]>>
                                  \o rest.ranges]
                 ELSE rest

extract_dst_extents(op, partition_len, block_size, checks) ==
    extract_from(op.dst_extents, 1, partition_len, block_size, checks)

\* ------------------------------------------------------------------ literal-stream write
\* The write of an extent that restarts at the head of the stream.
ExtentWritesFromHead(range, bytes, consumed, n) ==
    [j \in 1..n |-> <<range.off + j - 1, bytes[j]>>]

\* The byte writes that copy n stream bytes, the ones after the first
\* `consumed`, to the start of a range: a sequence of <<address, byte>>.
ExtentWrites(range, bytes, consumed, n) ==
    [j \in 1..n |-> <<range.off + j - 1, bytes[consumed + j]>>]

RECURSIVE SumLen(_, _)
SumLen(ranges, i) ==
    IF i > Len(ranges) THEN 0 ELSE ranges[i].len + SumLen(ranges, i + 1)

\* reader.read_exact(extent) over every extent but the last, in order
\* (lines 178-181). A reader that runs out fails the read; a decompressor
\* has by then copied the bytes it had, a byte slice has copied none.
RECURSIVE read_exact_all(_, _, _, _)
read_exact_all(reader, ranges, i, consumed) ==
    IF i >= Len(ranges)
    THEN [res |-> "Ok", writes |-> <<>>, bytes_read |-> consumed]
    ELSE
    LET len == ranges[i].len
        avail == Len(reader.bytes) - consumed
    IN  IF avail >= len
        THEN LET rest == read_exact_all(reader, ranges, i + 1, consumed + len)
             IN  [res |-> rest.res,
                  writes |-> ExtentWrites(ranges[i], reader.bytes, consumed, len)
                             \o rest.writes,
                  bytes_read |-> rest.bytes_read]
        ELSE [res |-> IF reader.err THEN "read error"
                      ELSE "failed to fill whole buffer",
              writes |-> IF reader.partial
                         THEN ExtentWrites(ranges[i], reader.bytes, consumed, avail)
                         ELSE <<>>,
              bytes_read |-> consumed]

\* read_exact_best_effort as a plain read_exact: a short stream fails it.
read_exact_strict(reader, range, consumed) ==
    LET avail == Len(reader.bytes) - consumed
        n == Min(range.len, avail)
    IN  [res |-> IF n < range.len THEN "failed to fill whole buffer" ELSE "Ok",
         writes |-> ExtentWrites(range, reader.bytes, consumed, n),
         bytes_read |-> n]


\* A best-effort read that pads the rest of the extent with zero bytes.
read_exact_padding(reader, range, consumed) ==
    LET avail == Len(reader.bytes) - consumed
        n == Min(range.len, avail)
    IN  [res |-> IF n < range.len /\ reader.err THEN "read error" ELSE "Ok",
         writes |-> ExtentWrites(range, reader.bytes, consumed, n)
                    \o [j \in 1..(range.len - n) |-> <<range.off + n + j - 1, 0>>],
         bytes_read |-> n]

\* Cmd::read_exact_best_effort on the last extent: read until the extent is
\* full or the reader is exhausted; only a read error fails it. (A read
\* that is interrupted is retried and changes nothing; the readers here, a
\* byte slice and decoders over one, are never interrupted.)
read_exact_best_effort(reader, range, consumed) ==
    LET avail == Len(reader.bytes) - consumed
        n == Min(range.len, avail)
    IN  [res |-> IF n < range.len /\ reader.err THEN "read error" ELSE "Ok",
         writes |-> ExtentWrites(range, reader.bytes, consumed, n),
         bytes_read |-> n]

\* The exhaustion check left out.
StreamNeverChecked(reader, bytes_read) == TRUE

\* reader.bytes().next().is_none() (line 186): nothing is left to read.
StreamExhausted(reader, bytes_read) ==
    ~(bytes_read < Len(reader.bytes) \/ reader.err)

\* Cmd::run_op_replace: the writes it performs, in order, and its result.
\* The writes happen before the two ensure! checks, so a failing call has
\* already written what it read.
run_op_replace(reader, ranges, block_size, checks) ==
    LET dst_len == SumLen(ranges, 1) % UsizeMod IN
    IF Len(ranges) = 0
    THEN [res |-> "panic: unwrap on None", writes |-> <<>>]
    ELSE
    LET head == read_exact_all(reader, ranges, 1, 0) IN
    IF head.res # "Ok" THEN [res |-> head.res, writes |-> head.writes]
    ELSE
    LET last == read_exact_best_effort(reader, ranges[Len(ranges)], head.bytes_read)
        writes == head.writes \o last.writes
        bytes_read == head.bytes_read + last.bytes_read
        sum == bytes_read + block_size
    IN  IF last.res # "Ok" THEN [res |-> last.res, writes |-> writes]
        ELSE IF ~StreamExhausted(reader, bytes_read)
        THEN [res |-> "read fewer bytes than expected", writes |-> writes]
        ELSE IF checks /\ (sum >= UsizeMod \/ sum = 0)
        THEN [res |-> "panic: arithmetic overflow", writes |-> writes]
        ELSE IF block_size = 0
        THEN [res |-> "panic: attempt to divide by zero", writes |-> writes]
        ELSE
        LET bytes_read_aligned ==
                ((((sum % UsizeMod) + UsizeMod - 1) % UsizeMod) \div block_size)
                * block_size
        IN  IF bytes_read_aligned = dst_len
            THEN [res |-> "Ok", writes |-> writes]
            ELSE [res |-> "more dst blocks than data, even with padding",
                  writes |-> writes]

\* ------------------------------------------------------------------ run_op
\* Type::from_i32: the operation kinds of the manifest format by tag; None
\* for a tag the format does not define.
TypeFromI32(t) ==
    IF t = 0 THEN Some("Replace")
    ELSE IF t = 1 THEN Some("ReplaceBz")
    ELSE IF t = 6 THEN Some("Zero")
    ELSE IF t = 8 THEN Some("ReplaceXz")
    ELSE IF t \in 2..13 THEN Some("Other")
    ELSE None

\* The integrity step without the no_verify guard.
VerifyAlways(op, data, no_verify) ==
    IF IsSome(op.data_sha256_hash)
    THEN verify_sha256(data, Unwrap(op.data_sha256_hash))
    ELSE "Ok"

\* The integrity step of run_op (lines 135-140): the digest is checked only
\* when the operation carries a hash and verification is not disabled.
VerifyStep(op, data, no_verify) ==
    IF IsSome(op.data_sha256_hash) /\ ~no_verify
    THEN verify_sha256(data, Unwrap(op.data_sha256_hash))
    ELSE "Ok"


\* The kind dispatch with the two failing arms replaced by a silent skip.
DispatchSkipsOthers(op, data, ranges, block_size, checks) ==
    LET type == TypeFromI32(op.type) IN
    IF IsNone(type) THEN [res |-> "Ok", writes |-> <<>>]
    ELSE IF Unwrap(type) = "Replace"
    THEN run_op_replace(SliceReader(data), ranges, block_size, checks)
    ELSE IF Unwrap(type) \in {"ReplaceBz", "ReplaceXz"}
    THEN run_op_replace(Decompress(data), ranges, block_size, checks)
    ELSE [res |-> "Ok", writes |-> <<>>]

\* The kind dispatch of run_op (lines 146-164).
Dispatch(op, data, ranges, block_size, checks) ==
    LET type == TypeFromI32(op.type) IN
    IF IsNone(type) THEN [res |-> "invalid operation", writes |-> <<>>]
    ELSE IF Unwrap(type) = "Replace"
    THEN run_op_replace(SliceReader(data), ranges, block_size, checks)
    ELSE IF Unwrap(type) \in {"ReplaceBz", "ReplaceXz"}
    THEN run_op_replace(Decompress(data), ranges, block_size, checks)
    ELSE IF Unwrap(type) = "Zero" THEN [res |-> "Ok", writes |-> <<>>]
    ELSE [res |-> "unimplemented operation", writes |-> <<>>]


\* Cmd::run_op: the result of the operation, the step that produced it, the
\* byte writes it performs on the partition buffer before returning, the
\* ranges the extent resolver granted it and the number of source bytes it
\* sliced from the blob. Every step before the dispatch only reads.
run_op(op, partition_len, block_size, no_verify, checks) ==
    IF IsNone(op.data_length)
    THEN [res |-> "data_length not defined", stage |-> "source",
          writes |-> <<>>, ranges |-> <<>>, sliced |-> 0]
    ELSE IF IsNone(op.data_offset)
    THEN [res |-> "data_offset not defined", stage |-> "source",
          writes |-> <<>>, ranges |-> <<>>, sliced |-> 0]
    ELSE
    LET src == SliceSource(Unwrap(op.data_offset), Unwrap(op.data_length), checks) IN
    IF src.res # "Ok"
    THEN [res |-> src.res, stage |-> "source",
          writes |-> <<>>, ranges |-> <<>>, sliced |-> 0]
    ELSE
    LET verified == VerifyStep(op, src.data, no_verify) IN
    IF verified # "Ok"
    THEN [res |-> verified, stage |-> "verify",
          writes |-> <<>>, ranges |-> <<>>, sliced |-> Len(src.data)]
    ELSE
    LET dst == extract_dst_extents(op, partition_len, block_size, checks) IN
    IF dst.res # "Ok"
    THEN [res |-> dst.res, stage |-> "extents",
          writes |-> <<>>, ranges |-> <<>>, sliced |-> Len(src.data)]
    ELSE
    LET out == Dispatch(op, src.data, dst.ranges, block_size, checks) IN
    [res |-> out.res, stage |-> "dispatch", writes |-> out.writes,
     ranges |-> dst.ranges, sliced |-> Len(src.data)]

\* ------------------------------------------------------------------ state
VARIABLES
    payload,      \* the payload file: status, magic_bytes, manifest (Option)
    cmd,          \* Cmd: partitions (allow-list), no_verify, concurrency
    checks,       \* whether the build checks arithmetic overflow
    dir_created,  \* create_partition_dir has created the output directory
    files,        \* output location by partition name: None or Some(bytes)
    pc,           \* Cmd::run: "start", "loop", "spawn", "wait", "done"
    cur,          \* position of the current partition among the selected ones
    next_op,      \* index of the next operation of it to spawn
    closure_res,  \* what the scope closure returned (None while it runs)
    result,       \* what run returned or how it ended (None while it runs)
    task,         \* by <<partition, operation>>: st, res, stage, writes,
                  \* pos, ranges, sliced
    panic,        \* the panic the scope has stored (None if no task panicked)
    progress,     \* by partition: the completed-count of its progress bar
    arc,          \* by partition: live references to its mapping
    mapped,       \* by partition: "no", "mapped", "unmapped"
    corrupt,      \* a write landed outside its partition's mapping
    first_err,    \* the first error that occurred in the run (None if none)
    after_fail    \* tasks submitted after a task had already failed

vars == <<payload, cmd, checks, dir_created, files, pc, cur, next_op,
          closure_res, result, task, panic, progress, arc, mapped, corrupt,
          first_err, after_fail>>

\* ------------------------------------------------------------------ manifest views
HasManifest == IsSome(payload.manifest)
Manifest == Unwrap(payload.manifest)
Partitions == IF HasManifest THEN Manifest.partitions ELSE <<>>
PartIds == 1..Len(Partitions)
OpIds(p) == 1..Len(Partitions[p].operations)
TaskIds == UNION {{<<p, o>> : o \in OpIds(p)} : p \in PartIds}
OpOf(t) == Partitions[t[1]].operations[t[2]]
NameOf(p) == Partitions[p].partition_name

InList(name, list) == \E i \in 1..Len(list) : list[i] = name


\* The partition loop without its filter.
SelectedUnfiltered(p) == [i \in 1..(Len(Partitions) - p + 1) |-> p + i - 1]

\* The filter of the partition loop (lines 82-84): every partition when the
\* allow-list is empty, else the ones it names, in manifest order.
RECURSIVE SelectedFrom(_)
SelectedFrom(p) ==
    IF p > Len(Partitions) THEN <<>>
    ELSE IF Len(cmd.partitions) = 0 \/ InList(NameOf(p), cmd.partitions)
         THEN <<p>> \o SelectedFrom(p + 1)
         ELSE SelectedFrom(p + 1)
Selected == SelectedFrom(1)

\* The allow-list check on the first listed name only.
FirstAbsentHead(i) ==
    IF Len(cmd.partitions) = 0
       \/ \E p \in PartIds : NameOf(p) = cmd.partitions[1]
    THEN None
    ELSE Some(cmd.partitions[1])

\* The allow-list check (lines 70-74): the first listed name that no
\* partition of the manifest has.
RECURSIVE FirstAbsent(_)
FirstAbsent(i) ==
    IF i > Len(cmd.partitions) THEN None
    ELSE IF \E p \in PartIds : NameOf(p) = cmd.partitions[i]
         THEN FirstAbsent(i + 1)
         ELSE Some(cmd.partitions[i])

\* PartitionUpdate.new_partition_info.size, as open_partition_file reads it.
partition_len(p) == Partitions[p].size

\* ------------------------------------------------------------------ Cmd::run
Fail(msg) == Some([kind |-> "err", msg |-> msg])
Success == Some([kind |-> "ok", msg |-> "Ok"])
Panicked(msg) == Some([kind |-> "panic", msg |-> msg])

NoteError(msg) == IF IsNone(first_err) THEN Some(msg) ELSE first_err

Zeros(n) == [i \in 1..n |-> 0]

\* Lines 58-79 of run, up to the scope: open, parse and check the payload,
\* decode the manifest, require block_size, check the allow-list, create the
\* output directory, build the thread pool. env is what the file system and
\* the pool builder answer.
PreludeError(env) ==
    IF payload.status = "unreadable" THEN Some("unable to open file for reading")
    ELSE IF payload.status = "unparsable" THEN Some("unable to parse payload")
    ELSE IF payload.magic_bytes # "CrAU" THEN Some("invalid magic bytes")
    ELSE IF ~HasManifest THEN Some("unable to parse manifest")
    ELSE IF IsNone(Manifest.block_size) THEN Some("block_size not defined")
    ELSE IF IsSome(FirstAbsent(1)) THEN Some("partition not found in manifest")
    ELSE IF env = "no dir" THEN Some("could not create output directory")
    ELSE IF env = "no threadpool" THEN Some("unable to start threadpool")
    ELSE None

Prelude ==
    /\ pc = "start"
    /\ \E env \in {"ok", "no dir", "no threadpool"} :
        LET err == PreludeError(env) IN
        /\ dir_created' = (IsNone(err) \/ err = Some("unable to start threadpool"))
        /\ IF IsNone(err)
           THEN /\ pc' = "loop"
                /\ UNCHANGED <<result, first_err>>
           ELSE /\ pc' = "done"
                /\ result' = Fail(Unwrap(err))
                /\ first_err' = NoteError(Unwrap(err))
    /\ UNCHANGED <<payload, cmd, checks, files, cur, next_op, closure_res,
                   task, panic, progress, arc, mapped, corrupt, after_fail>>


\* open_partition_file with create(true).truncate(true) in place of
\* create_new(true): a file that exists is emptied and reused.
OpenPartitionTruncating ==
    /\ pc = "loop"
    /\ cur <= Len(Selected)
    /\ LET p == Selected[cur]
           name == NameOf(p)
       IN  \E env \in {"ok", "set_len failed", "mmap failed"} :
           LET err ==
                 IF IsNone(partition_len(p))
                 THEN Some("unable to determine output file size")
                 ELSE IF env = "ok" THEN None ELSE Some(env)
               created == IsSome(partition_len(p))
           IN
           /\ files' = IF ~created THEN files
                       ELSE IF env = "set_len failed"
                       THEN [files EXCEPT ![name] = Some(<<>>)]
                       ELSE [files EXCEPT
                               ![name] = Some(Zeros(Unwrap(partition_len(p))))]
           /\ IF IsNone(err)
              THEN /\ pc' = "spawn"
                   /\ next_op' = 1
                   /\ arc' = [arc EXCEPT ![p] = 1]
                   /\ mapped' = [mapped EXCEPT ![p] = "mapped"]
                   /\ UNCHANGED <<closure_res, first_err>>
              ELSE /\ pc' = "wait"
                   /\ closure_res' = Fail(Unwrap(err))
                   /\ first_err' = NoteError(Unwrap(err))
                   /\ UNCHANGED <<next_op, arc, mapped>>
    /\ UNCHANGED <<payload, cmd, checks, dir_created, cur, result, task, panic,
                   progress, corrupt, after_fail>>

\* Cmd::open_partition_file for the next selected partition (lines 85-88):
\* the size must be declared, the file must not exist (create_new), then it
\* is sized (zero-filled) and mapped. A failure returns from the scope
\* closure with the error.
OpenPartition ==
    /\ pc = "loop"
    /\ cur <= Len(Selected)
    /\ LET p == Selected[cur]
           name == NameOf(p)
       IN  \E env \in {"ok", "set_len failed", "mmap failed"} :
           LET err ==
                 IF IsNone(partition_len(p))
                 THEN Some("unable to determine output file size")
                 ELSE IF IsSome(files[name])
                 THEN Some("unable to open file for writing")
                 ELSE IF env = "ok" THEN None ELSE Some(env)
               created == IsSome(partition_len(p)) /\ IsNone(files[name])
           IN
           /\ files' = IF ~created THEN files
                       ELSE IF env = "set_len failed"
                       THEN [files EXCEPT ![name] = Some(<<>>)]
                       ELSE [files EXCEPT
                               ![name] = Some(Zeros(Unwrap(partition_len(p))))]
           /\ IF IsNone(err)
              THEN /\ pc' = "spawn"
                   /\ next_op' = 1
                   /\ arc' = [arc EXCEPT ![p] = 1]
                   /\ mapped' = [mapped EXCEPT ![p] = "mapped"]
                   /\ UNCHANGED <<closure_res, first_err>>
              ELSE /\ pc' = "wait"
                   /\ closure_res' = Fail(Unwrap(err))
                   /\ first_err' = NoteError(Unwrap(err))
                   /\ UNCHANGED <<next_op, arc, mapped>>
    /\ UNCHANGED <<payload, cmd, checks, dir_created, cur, result, task, panic,
                   progress, corrupt, after_fail>>

\* scope.spawn for the next operation of the current partition (lines
\* 89-99): the task gets its own reference to the mapping.
Spawn ==
    /\ pc = "spawn"
    /\ LET p == Selected[cur] IN
       /\ next_op <= Len(Partitions[p].operations)
       /\ task' = [task EXCEPT ![<<p, next_op>>].st = "pending"]
       /\ arc' = [arc EXCEPT ![p] = @ + 1]
       /\ after_fail' = IF IsSome(panic) THEN after_fail \cup {<<p, next_op>>}
                        ELSE after_fail
    /\ next_op' = next_op + 1
    /\ UNCHANGED <<payload, cmd, checks, dir_created, files, pc, cur,
                   closure_res, result, panic, progress, mapped, corrupt,
                   first_err>>


\* A drop that unmaps the buffer whoever else still refers to it.
DropRefUnmaps(p) ==
    /\ arc' = [arc EXCEPT ![p] = @ - 1]
    /\ mapped' = [mapped EXCEPT ![p] = "unmapped"]

\* Drop of one reference to a partition's mapping; the last one unmaps it.
DropRef(p) ==
    /\ arc' = [arc EXCEPT ![p] = @ - 1]
    /\ mapped' = IF arc[p] = 1 THEN [mapped EXCEPT ![p] = "unmapped"] ELSE mapped

\* End of one iteration of the partition loop: the loop's own reference to
\* the mapping goes out of scope.
NextPartition ==
    /\ pc = "spawn"
    /\ next_op > Len(Partitions[Selected[cur]].operations)
    /\ DropRef(Selected[cur])
    /\ pc' = "loop"
    /\ cur' = cur + 1
    /\ UNCHANGED <<payload, cmd, checks, dir_created, files, next_op,
                   closure_res, result, task, panic, progress, corrupt,
                   first_err, after_fail>>

\* The scope closure returns Ok(()) after the last partition (line 101).
ClosureReturn ==
    /\ pc = "loop"
    /\ cur > Len(Selected)
    /\ pc' = "wait"
    /\ closure_res' = Success
    /\ UNCHANGED <<payload, cmd, checks, dir_created, files, cur, next_op,
                   result, task, panic, progress, arc, mapped, corrupt,
                   first_err, after_fail>>


\* A scope that does not wait for its tasks when the closure failed.
UnfinishedUnlessFailed ==
    IF IsSome(closure_res) /\ closure_res # Success THEN {}
    ELSE {t \in TaskIds : task[t].st \in {"pending", "running"}}

Unfinished == {t \in TaskIds : task[t].st \in {"pending", "running"}}

\* The scope's result without the stored panic.
ScopeResultOfClosure == closure_res

\* What threadpool.scope hands to its caller once every task has finished:
\* a stored panic is resumed, else the closure's result is returned.
ScopeResult ==
    IF IsSome(panic) THEN Panicked(Unwrap(panic)) ELSE closure_res

\* threadpool.scope returns (line 102), after it has waited for every
\* spawned task.
ScopeEnd ==
    /\ pc = "wait"
    /\ Unfinished = {}
    /\ pc' = "done"
    /\ result' = ScopeResult
    /\ UNCHANGED <<payload, cmd, checks, dir_created, files, cur, next_op,
                   closure_res, task, panic, progress, arc, mapped, corrupt,
                   first_err, after_fail>>

\* ------------------------------------------------------------------ tasks
\* Cmd::get_threadpool: the number of workers; 0 or no value asks for the
\* machine's parallelism.
get_threadpool ==
    IF IsNone(cmd.concurrency) \/ cmd.concurrency = Some(0)
    THEN MaxThreads
    ELSE Unwrap(cmd.concurrency)

\* Workers that are busy: one per running task, and one runs the scope
\* closure until it returns.
Busy ==
    Cardinality({t \in TaskIds : task[t].st = "running"})
    + (IF pc \in {"loop", "spawn"} THEN 1 ELSE 0)

\* A free worker picks up a spawned task and runs run_op up to its first
\* write (lines 94-95): the steps before the dispatch only read the
\* manifest and the blob, and the writes of the dispatch depend on nothing
\* but the operation.
TaskStart(t) ==
    /\ task[t].st = "pending"
    /\ Busy < get_threadpool
    /\ LET r == run_op(OpOf(t), Unwrap(partition_len(t[1])),
                       Unwrap(Manifest.block_size), cmd.no_verify, checks)
       IN  task' = [task EXCEPT ![t] = [st |-> "running", res |-> r.res,
                                        stage |-> r.stage,
                                        writes |-> r.writes, pos |-> 0,
                                        ranges |-> r.ranges,
                                        sliced |-> r.sliced]]
    /\ UNCHANGED <<payload, cmd, checks, dir_created, files, pc, cur, next_op,
                   closure_res, result, panic, progress, arc, mapped, corrupt,
                   first_err, after_fail>>

\* One byte of the task's copy into the mapping, through the raw pointer.
\* An address outside the mapping is a write to other memory.
TaskWrite(t) ==
    /\ task[t].st = "running"
    /\ task[t].pos < Len(task[t].writes)
    /\ LET w == task[t].writes[task[t].pos + 1]
           name == NameOf(t[1])
           buf == Unwrap(files[name])
       IN  IF w[1] < Len(buf)
           THEN /\ files' = [files EXCEPT ![name] = Some([buf EXCEPT ![w[1] + 1] = w[2]])]
                /\ UNCHANGED corrupt
           ELSE /\ corrupt' = TRUE
                /\ UNCHANGED files
    /\ task' = [task EXCEPT ![t].pos = @ + 1]
    /\ UNCHANGED <<payload, cmd, checks, dir_created, pc, cur, next_op,
                   closure_res, result, panic, progress, arc, mapped,
                   first_err, after_fail>>


\* The end of a task that bumps the progress bar whatever run_op returned.
TaskEndCountsFailures(t) ==
    /\ task[t].st = "running"
    /\ task[t].pos = Len(task[t].writes)
    /\ progress' = [progress EXCEPT ![t[1]] = @ + 1]
    /\ IF task[t].res = "Ok"
       THEN /\ task' = [task EXCEPT ![t].st = "done"]
            /\ UNCHANGED <<panic, first_err>>
       ELSE /\ task' = [task EXCEPT ![t].st = "panicked"]
            /\ panic' = IF IsNone(panic) THEN Some(task[t].res) ELSE panic
            /\ first_err' = NoteError(task[t].res)
    /\ DropRef(t[1])
    /\ UNCHANGED <<payload, cmd, checks, dir_created, files, pc, cur, next_op,
                   closure_res, result, corrupt, after_fail>>

\* run_op has returned (lines 95-98): Ok bumps the partition's progress bar;
\* an error makes expect() panic, and the scope stores the first panic. The
\* task's reference to the mapping is dropped either way.
TaskEnd(t) ==
    /\ task[t].st = "running"
    /\ task[t].pos = Len(task[t].writes)
    /\ IF task[t].res = "Ok"
       THEN /\ task' = [task EXCEPT ![t].st = "done"]
            /\ progress' = [progress EXCEPT ![t[1]] = @ + 1]
            /\ UNCHANGED <<panic, first_err>>
       ELSE /\ task' = [task EXCEPT ![t].st = "panicked"]
            /\ panic' = IF IsNone(panic) THEN Some(task[t].res) ELSE panic
            /\ first_err' = NoteError(task[t].res)
            /\ UNCHANGED progress
    /\ DropRef(t[1])
    /\ UNCHANGED <<payload, cmd, checks, dir_created, files, pc, cur, next_op,
                   closure_res, result, corrupt, after_fail>>

\* ------------------------------------------------------------------ inputs
Ext(s, n) == [start_block |-> Some(s), num_blocks |-> Some(n)]
Op(type, offset, len, hash, exts) ==
    [type |-> type, data_offset |-> offset, data_length |-> len,
     data_sha256_hash |-> hash, dst_extents |-> exts]
Part(name, size, ops) ==
    [partition_name |-> name, size |-> size, operations |-> ops]
Payload(block_size, parts) ==
    [status |-> "ok", magic_bytes |-> "CrAU",
     manifest |-> Some([block_size |-> block_size, partitions |-> parts])]
Scenario(pl, allow, no_verify, concurrency, ovf_checks, existing) ==
    [payload |-> pl,
     cmd |-> [partitions |-> allow, no_verify |-> no_verify,
              concurrency |-> concurrency],
     checks |-> ovf_checks, existing |-> existing]

Names == {"boot", "system", "vendor"}

\* A start block whose byte offset, with 2-byte blocks, is 2^UsizeBits.
HugeBlock == UsizeMod \div 2

RECURSIVE Sum(_, _)
Sum(f, i) == IF i > Len(f) THEN 0 ELSE f[i] + Sum(f, i + 1)

\* Block counts of up to MaxBlocks extents that fit a partition of
\* MaxBlocks blocks, and the extents that lay them out one after another
\* from block 0.
CountLists ==
    {c \in UNION {[1..k -> 0..MaxBlocks] : k \in 1..MaxBlocks} :
        Sum(c, 1) <= MaxBlocks}
Tiling(c) == [i \in 1..Len(c) |-> Ext(Sum(SubSeq(c, 1, i - 1), 1), c[i])]

\* Inputs of the literal-stream write: one partition, one Replace or
\* compressed Replace operation, every tiling, every source length.
StreamScenarios ==
    {Scenario(Payload(Some(b),
                  <<Part("boot", Some(b * MaxBlocks),
                         <<Op(ty, Some(src[1]), Some(src[2]), None, Tiling(c))>>)>>),
              <<>>, FALSE, None, FALSE, {}) :
        b \in {1, 2}, c \in CountLists,
        ty \in {0, 1},
        src \in {<<0, n>> : n \in 0..BlobLen} \cup {<<1, n>> : n \in {2, 4, 6}}}

\* Inputs of run_op's steps: one partition of two 2-byte blocks, one
\* operation whose kind, source range, hash and extents vary.
StepSources ==
    {<<None, None>>, <<Some(0), None>>, <<None, Some(2)>>, <<Some(0), Some(2)>>,
     <<Some(0), Some(4)>>, <<Some(BlobLen - 1), Some(2)>>,
     <<Some(UsizeMod - 1), Some(2)>>}
StepHashes ==
    {None, Some(Sha256Digest(<<1, 2>>)), Some(Sha256Digest(<<2, 1>>)),
     Some(<<>>)}
StepExtents ==
    {<<>>, <<Ext(0, 1)>>, <<Ext(0, 2)>>, <<Ext(0, 1), Ext(1, 1)>>,
     <<Ext(1, 1), Ext(0, 1)>>, <<Ext(0, 1), Ext(0, 1)>>, <<Ext(2, 1)>>,
     <<Ext(HugeBlock, 1)>>, <<Ext(HugeBlock - 1, 1)>>, <<Ext(0, HugeBlock)>>,
     <<[start_block |-> None, num_blocks |-> Some(1)]>>,
     <<Ext(0, 1), [start_block |-> Some(1), num_blocks |-> None]>>}
StepScenarios ==
    {Scenario(Payload(Some(2),
                  <<Part("boot", Some(4),
                         <<Op(ty, src[1], src[2], h, e)>>)>>),
              <<>>, nv, None, ck, {}) :
        ty \in {0, 1, 4, 6, 8, 99}, src \in StepSources, h \in StepHashes,
        e \in StepExtents, nv \in BOOLEAN, ck \in BOOLEAN}

\* Operations of the concurrent runs, on partitions of two 2-byte blocks:
\* Replace of block 0, of block 1, of block 0 again with other bytes, of
\* the block that is 2^UsizeBits bytes away from block 0, of both blocks; a
\* ZeroFill; a Replace with one byte too many (it fails after its writes);
\* a Replace whose hash does not match (it fails before any write).
Rep(offset, len, exts) == Op(0, Some(offset), Some(len), None, exts)
RunOps ==
    {Rep(0, 2, <<Ext(0, 1)>>), Rep(2, 2, <<Ext(1, 1)>>),
     Rep(4, 2, <<Ext(0, 1)>>), Rep(4, 2, <<Ext(HugeBlock, 1)>>),
     Rep(4, 4, <<Ext(1, 1), Ext(0, 1)>>),
     Op(6, Some(0), Some(0), None, <<Ext(0, 2)>>),
     Rep(0, 3, <<Ext(1, 1)>>),
     Op(0, Some(0), Some(2), Some(Sha256Digest(<<2, 1>>)), <<Ext(0, 1)>>)}
OpLists(ops, n) == UNION {[1..k -> ops] : k \in 0..n}

\* One partition, up to two operations, on one worker or on the machine's.
RaceScenarios ==
    {Scenario(Payload(Some(2), <<Part("boot", Some(4), ops)>>),
              <<>>, FALSE, conc, ck, {}) :
        ops \in OpLists(RunOps, 2), conc \in {None, Some(1)}, ck \in BOOLEAN}

\* Two partitions, allow-lists, missing sizes and files left by an earlier
\* run.
FewOps ==
    {Rep(0, 2, <<Ext(0, 1)>>), Rep(0, 3, <<Ext(1, 1)>>),
     Op(0, Some(0), Some(2), Some(Sha256Digest(<<2, 1>>)), <<Ext(0, 1)>>)}
RunScenarios ==
    {Scenario(Payload(Some(2), <<Part("boot", Some(4), ops1),
                                 Part("system", size2, ops2)>>),
              allow, FALSE, conc, FALSE, existing) :
        ops1 \in OpLists(FewOps, 1), ops2 \in OpLists(FewOps, 1),
        size2 \in {None, Some(2)},
        allow \in {<<>>, <<"system">>, <<"system", "boot">>,
                   <<"boot", "vendor">>, <<"vendor">>},
        conc \in {None, Some(1)},
        existing \in {{}, {"boot"}, {"system"}}}

\* Payloads that run rejects before it reaches the partitions.
BadPayloads ==
    {[status |-> "unreadable", magic_bytes |-> "", manifest |-> None],
     [status |-> "unparsable", magic_bytes |-> "", manifest |-> None],
     [status |-> "ok", magic_bytes |-> "XXXX", manifest |-> None],
     [status |-> "ok", magic_bytes |-> "CrAU", manifest |-> None],
     Payload(None, <<Part("boot", Some(4), <<>>)>>)}
RejectScenarios ==
    {Scenario(pl, allow, FALSE, None, FALSE, {}) :
        pl \in BadPayloads, allow \in {<<>>, <<"vendor">>}}

Scenarios ==
    StreamScenarios \cup StepScenarios \cup RaceScenarios \cup RunScenarios
    \cup RejectScenarios

\* ------------------------------------------------------------------ specification
NewTask ==
    [st |-> "none", res |-> "", stage |-> "", writes |-> <<>>, pos |-> 0,
     ranges |-> <<>>, sliced |-> 0]

\* What an earlier run left at an output location.
Leftover == <<9, 9, 9>>

Init ==
    \E sc \in Scenarios :
        /\ payload = sc.payload
        /\ cmd = sc.cmd
        /\ checks = sc.checks
        /\ files = [n \in Names |-> IF n \in sc.existing THEN Some(Leftover) ELSE None]
        /\ dir_created = FALSE
        /\ pc = "start"
        /\ cur = 1
        /\ next_op = 1
        /\ closure_res = None
        /\ result = None
        /\ task = [t \in TaskIds |-> NewTask]
        /\ panic = None
        /\ progress = [p \in PartIds |-> 0]
        /\ arc = [p \in PartIds |-> 0]
        /\ mapped = [p \in PartIds |-> "no"]
        /\ corrupt = FALSE
        /\ first_err = None
        /\ after_fail = {}

Next ==
    \/ Prelude
    \/ OpenPartition
    \/ Spawn
    \/ NextPartition
    \/ ClosureReturn
    \/ ScopeEnd
    \/ \E t \in TaskIds : TaskStart(t)
    \/ \E t \in TaskIds : TaskWrite(t)
    \/ \E t \in TaskIds : TaskEnd(t)

Spec == Init /\ [][Next]_vars

\* ------------------------------------------------------------------ notions the claims use
BlockSize == Unwrap(Manifest.block_size)
Finished(t) == task[t].st \in {"done", "panicked"}
Ran(t) == task[t].st \in {"running", "done", "panicked"}

\* The extents a partition declares (operation, index) with both fields
\* present, and the byte range [Lo, Hi) each stands for, as integers.
DeclExtents(p) ==
    {e \in UNION {{<<o, i>> : i \in 1..Len(Partitions[p].operations[o].dst_extents)} :
                  o \in OpIds(p)} :
        LET x == Partitions[p].operations[e[1]].dst_extents[e[2]]
        IN  IsSome(x.start_block) /\ IsSome(x.num_blocks)}
ExtentAt(p, e) == Partitions[p].operations[e[1]].dst_extents[e[2]]
Lo(p, e) == Unwrap(ExtentAt(p, e).start_block) * BlockSize
Hi(p, e) ==
    (Unwrap(ExtentAt(p, e).start_block) + Unwrap(ExtentAt(p, e).num_blocks))
    * BlockSize
Intersect(lo1, hi1, lo2, hi2) ==
    \E b \in 0..UsizeMod * UsizeMod : lo1 <= b /\ b < hi1 /\ lo2 <= b /\ b < hi2
DeclDisjoint(p) ==
    \A e1, e2 \in DeclExtents(p) :
        e1 # e2 => ~Intersect(Lo(p, e1), Hi(p, e1), Lo(p, e2), Hi(p, e2))
\* The declared extents are disjoint and cover [0, size) exactly.
DeclTiles(p) ==
    /\ DeclDisjoint(p)
    /\ \A e \in DeclExtents(p) : Hi(p, e) <= Unwrap(partition_len(p))
    /\ \A b \in 0..Unwrap(partition_len(p)) - 1 :
          \E e \in DeclExtents(p) : Lo(p, e) <= b /\ b < Hi(p, e)

\* The buffer that the operations of a partition leave when they run one
\* after another in manifest order on a zeroed buffer.
RECURSIVE ApplyWrites(_, _, _)
ApplyWrites(buf, writes, i) ==
    IF i > Len(writes) THEN buf
    ELSE ApplyWrites(IF writes[i][1] < Len(buf)
                     THEN [buf EXCEPT ![writes[i][1] + 1] = writes[i][2]]
                     ELSE buf,
                     writes, i + 1)
RECURSIVE RunInOrder(_, _, _)
RunInOrder(p, o, buf) ==
    IF o > Len(Partitions[p].operations) THEN buf
    ELSE RunInOrder(p, o + 1,
            ApplyWrites(buf,
                run_op(Partitions[p].operations[o], Unwrap(partition_len(p)),
                       BlockSize, cmd.no_verify, checks).writes, 1))
Sequential(p) == RunInOrder(p, 1, Zeros(Unwrap(partition_len(p))))

AllRan(p) == mapped[p] # "no" /\ \A o \in OpIds(p) : Finished(<<p, o>>)

\* ------------------------------------------------------------------ claims
\* C1: for every manifest whose destination extents of a partition are
\* pairwise disjoint, once all operations of the partition have run as
\* concurrent tasks the partition's buffer equals the buffer that running
\* them one after another in manifest order produces.
C1_ParallelEqualsSequential ==
    \A p \in PartIds :
        (AllRan(p) /\ DeclDisjoint(p))
            => files[NameOf(p)] = Some(Sequential(p))

\* C2: no two operation tasks that are executing at the same time hold
\* write ranges on the same partition buffer whose byte ranges intersect,
\* whatever the manifest declares.
C2_NoOverlappingGrants ==
    \A t1, t2 \in TaskIds :
        (t1 # t2 /\ t1[1] = t2[1]
         /\ task[t1].st = "running" /\ task[t2].st = "running")
            => \A i \in 1..Len(task[t1].ranges), j \in 1..Len(task[t2].ranges) :
                 ~Intersect(task[t1].ranges[i].off,
                            task[t1].ranges[i].off + task[t1].ranges[i].len,
                            task[t2].ranges[j].off,
                            task[t2].ranges[j].off + task[t2].ranges[j].len)

\* C3: a partition whose declared extents overlap or do not cover
\* [0, declared size) exactly is rejected with an error before any of its
\* operation tasks is dispatched, and none of its operations writes to the
\* buffer.
C3_BadTilingRejected ==
    \A p \in PartIds :
        (IsSome(partition_len(p)) /\ ~DeclTiles(p))
            => /\ \A o \in OpIds(p) : task[<<p, o>>].pos = 0
               /\ (pc = "done" /\ mapped[p] # "no") => Unwrap(result).kind # "ok"

\* The literal stream of a Replace-kind operation as run_op hands it to
\* run_op_replace, its length S, the total length L of the ranges granted to
\* the task, and the length of the last of them.
ReplaceKind(op) ==
    TypeFromI32(op.type) \in {Some("Replace"), Some("ReplaceBz"), Some("ReplaceXz")}
SourceOf(op) ==
    SubSeq(PayloadData, Unwrap(op.data_offset) + 1,
           Unwrap(op.data_offset) + Unwrap(op.data_length))
ReaderOf(op) ==
    IF TypeFromI32(op.type) = Some("Replace") THEN SliceReader(SourceOf(op))
    ELSE Decompress(SourceOf(op))
WroteStream(t) ==
    Finished(t) /\ task[t].stage = "dispatch" /\ ReplaceKind(OpOf(t))
    /\ ~ReaderOf(OpOf(t)).err
S(t) == Len(ReaderOf(OpOf(t)).bytes)
L(t) == SumLen(task[t].ranges, 1)
LastLen(t) == task[t].ranges[Len(task[t].ranges)].len
Aligned(n) == ((n + BlockSize - 1) \div BlockSize) * BlockSize

\* C4 (as stated): with a non-empty extent list and a block size above 1, a
\* stream of length L and a stream of length L - 1 both succeed, for every
\* split of L into extents, a last extent of zero blocks included.
C4_AlignedStreamsSucceed ==
    \A t \in TaskIds :
        (WroteStream(t) /\ Len(task[t].ranges) > 0 /\ BlockSize > 1
         /\ (S(t) = L(t) \/ S(t) = L(t) - 1))
            => task[t].res = "Ok"

\* C4 (amended): with a non-empty extent list and a block size above 1, a
\* stream of length L succeeds for every split of L into extents, and a
\* stream of length L - 1 succeeds for every split whose last extent has at
\* least one block.
C4_AlignedStreamsSucceedLastNonEmpty ==
    \A t \in TaskIds :
        (WroteStream(t) /\ Len(task[t].ranges) > 0 /\ BlockSize > 1
         /\ (S(t) = L(t) \/ (S(t) = L(t) - 1 /\ LastLen(t) >= 1)))
            => task[t].res = "Ok"

\* A stream one byte short has been written over two or more extents, the
\* last of them shorter than the first, and the operation succeeded.
C4_Witness ==
    \E t \in TaskIds :
        /\ WroteStream(t) /\ Len(task[t].ranges) >= 2 /\ BlockSize > 1
        /\ S(t) = L(t) - 1
        /\ LastLen(t) >= 1 /\ LastLen(t) < task[t].ranges[1].len
        /\ task[t].res = "Ok"
        /\ task[t].pos = S(t)

\* C5 (as stated): a stream longer than L fails with the excess-data error,
\* and a stream whose length rounded up to the block size is below L fails
\* with the insufficient-data error, wherever in the extent list it runs
\* out.
C5_ShapeErrors ==
    \A t \in TaskIds :
        WroteStream(t)
            => /\ S(t) > L(t) => task[t].res = "read fewer bytes than expected"
               /\ Aligned(S(t)) < L(t)
                    => task[t].res = "more dst blocks than data, even with padding"

\* C5 (amended): with a non-empty extent list, a stream longer than L fails
\* with the excess-data error; a stream whose length rounded up to the block
\* size is below L fails with the insufficient-data error when it runs out
\* in the last extent, and with the read error of read_exact (unexpected end
\* of stream) when it runs out in an earlier extent.
C5_ShapeErrorsByExtent ==
    \A t \in TaskIds :
        (WroteStream(t) /\ Len(task[t].ranges) > 0)
            => /\ S(t) > L(t) => task[t].res = "read fewer bytes than expected"
               /\ (Aligned(S(t)) < L(t) /\ S(t) >= L(t) - LastLen(t))
                    => task[t].res = "more dst blocks than data, even with padding"
               /\ (Aligned(S(t)) < L(t) /\ S(t) < L(t) - LastLen(t))
                    => task[t].res = "failed to fill whole buffer"

\* A stream has run out in an extent before the last and the operation has
\* failed with the read error.
C5_Witness ==
    \E t \in TaskIds :
        /\ WroteStream(t) /\ Len(task[t].ranges) >= 2
        /\ Aligned(S(t)) < L(t) /\ S(t) < L(t) - LastLen(t)
        /\ task[t].st = "panicked"
        /\ task[t].res = "failed to fill whole buffer"

\* The source range of an operation is present and inside the blob.
SourceOk(op) ==
    /\ IsSome(op.data_offset) /\ IsSome(op.data_length)
    /\ Unwrap(op.data_offset) + Unwrap(op.data_length) <= Len(PayloadData)
NoHash(op) == [op EXCEPT !.data_sha256_hash = None]
RunOpOf(op, t) ==
    run_op(op, Unwrap(partition_len(t[1])), BlockSize, cmd.no_verify, checks)

\* C6: run_op fails with the hash-mismatch error exactly when verification
\* is enabled, the operation carries an expected hash and the digest of its
\* source bytes differs from it; an operation that fails this way has
\* written nothing; and with verification disabled or no hash, the result
\* and the writes are those of the same operation without a hash.
C6_HashMismatchIff ==
    \A t \in TaskIds :
        Ran(t)
            => /\ task[t].res = "hash mismatch"
                    <=> /\ SourceOk(OpOf(t))
                        /\ ~cmd.no_verify
                        /\ IsSome(OpOf(t).data_sha256_hash)
                        /\ Sha256Digest(SourceOf(OpOf(t)))
                               # Unwrap(OpOf(t).data_sha256_hash)
               /\ task[t].res = "hash mismatch"
                    => task[t].writes = <<>> /\ task[t].pos = 0
               /\ (cmd.no_verify \/ IsNone(OpOf(t).data_sha256_hash))
                    => /\ task[t].res = RunOpOf(NoHash(OpOf(t)), t).res
                       /\ task[t].writes = RunOpOf(NoHash(OpOf(t)), t).writes

\* An operation with a hash that does not match has failed on it with
\* verification enabled, with a buffer that is still all zero.
C6_Witness ==
    \E t \in TaskIds :
        /\ task[t].st = "panicked"
        /\ task[t].res = "hash mismatch"
        /\ ~cmd.no_verify
        /\ files[NameOf(t[1])] = Some(Zeros(Unwrap(partition_len(t[1]))))

\* The allow-list names a partition that the decoded manifest does not have.
Decoded ==
    /\ payload.status = "ok" /\ payload.magic_bytes = "CrAU"
    /\ HasManifest /\ IsSome(Manifest.block_size)
AbsentNamed ==
    \E i \in 1..Len(cmd.partitions) :
        \A p \in PartIds : NameOf(p) # cmd.partitions[i]

\* C7: if the allow-list names a partition absent from the decoded
\* manifest, the output directory is never created, no partition file is
\* created or sized, no task is submitted, and the run ends with the
\* partition-not-found error, also when other listed names are present.
C7_AbsentPartitionFailsFast ==
    (Decoded /\ AbsentNamed)
        => /\ ~dir_created
           /\ \A n \in Names : files[n] \in {None, Some(Leftover)}
           /\ \A p \in PartIds : mapped[p] = "no"
           /\ \A t \in TaskIds : task[t].st = "none"
           /\ pc \in {"start", "done"}
           /\ pc = "done" => result = Fail("partition not found in manifest")

\* A run has ended on an allow-list that names a present and an absent
\* partition.
C7_Witness ==
    /\ pc = "done" /\ Decoded /\ AbsentNamed
    /\ \E i \in 1..Len(cmd.partitions) :
          \E p \in PartIds : NameOf(p) = cmd.partitions[i]
    /\ result = Fail("partition not found in manifest")

\* C8: if any submitted task fails, the run does not end reporting success,
\* whatever the other tasks do.
C8_FailureNeverSuccess ==
    (pc = "done" /\ \E t \in TaskIds : Ran(t) /\ task[t].res # "Ok")
        => Unwrap(result).kind # "ok"

\* A run has ended after one task failed and another succeeded, with the
\* scope closure itself returning Ok.
C8_Witness ==
    /\ pc = "done"
    /\ \E t \in TaskIds : task[t].st = "panicked"
    /\ \E t \in TaskIds : task[t].st = "done"
    /\ closure_res = Success
    /\ Unwrap(result).kind = "panic"

\* C9: once a task has failed, no further task is submitted, and the error
\* the run reports is the first error that occurred.
C9_FailureHaltsSubmission ==
    /\ after_fail = {}
    /\ (pc = "done" /\ IsSome(first_err)) => Unwrap(result).msg = Unwrap(first_err)

\* C10: a ZeroFill operation without a source range and with in-bounds
\* destination extents succeeds, reads no source bytes and leaves the
\* buffer as it was.
C10_ZeroFillWithoutSource ==
    \A t \in TaskIds :
        (/\ Finished(t)
         /\ TypeFromI32(OpOf(t).type) = Some("Zero")
         /\ IsNone(OpOf(t).data_offset) /\ IsNone(OpOf(t).data_length)
         /\ \A i \in 1..Len(OpOf(t).dst_extents) :
               LET x == OpOf(t).dst_extents[i] IN
               /\ IsSome(x.start_block) /\ IsSome(x.num_blocks)
               /\ (Unwrap(x.start_block) + Unwrap(x.num_blocks)) * BlockSize
                      <= Unwrap(partition_len(t[1])))
            => /\ task[t].res = "Ok"
               /\ task[t].sliced = 0
               /\ task[t].writes = <<>>

\* The operations of the kinds the dispatch has no arm for: a known tag
\* other than the four handled ones, and a tag outside the enumeration.
OtherKind(t) == TypeFromI32(OpOf(t).type) = Some("Other")
UnknownKind(t) == IsNone(TypeFromI32(OpOf(t).type))

\* C11 as stated: an operation of another known kind always fails with the
\* unimplemented-operation error and one with an unknown tag always fails
\* with the invalid-operation error; neither is counted as completed or
\* writes to the buffer.
C11_UnsupportedKindError ==
    \A t \in TaskIds :
        Finished(t) =>
            /\ OtherKind(t) => task[t].res = "unimplemented operation"
            /\ UnknownKind(t) => task[t].res = "invalid operation"
            /\ (OtherKind(t) \/ UnknownKind(t)) =>
                   /\ task[t].st = "panicked"
                   /\ task[t].writes = <<>> /\ task[t].pos = 0

\* C11, amended: an operation of another known kind or with an unknown tag
\* always fails, is never counted as completed and never writes; its error
\* is the unimplemented-operation error (the invalid-operation error for an
\* unknown tag) exactly when its source range, hash and extents passed the
\* three steps before the dispatch, and the error of the first of those
\* steps to fail otherwise.
C11_UnsupportedKindFails ==
    \A t \in TaskIds :
        (Ran(t) /\ (OtherKind(t) \/ UnknownKind(t))) =>
            /\ task[t].res # "Ok"
            /\ task[t].st # "done"
            /\ task[t].writes = <<>> /\ task[t].pos = 0
            /\ progress[t[1]] =
                   Cardinality({o \in OpIds(t[1]) : task[<<t[1], o>>].st = "done"})
            /\ (OtherKind(t) /\ task[t].stage = "dispatch")
                   => task[t].res = "unimplemented operation"
            /\ (UnknownKind(t) /\ task[t].stage = "dispatch")
                   => task[t].res = "invalid operation"
            /\ task[t].stage # "dispatch"
                   => /\ task[t].res \notin {"unimplemented operation", "invalid operation"}
                      /\ task[t].res = RunOpOf([OpOf(t) EXCEPT !.type = 0], t).res

\* An operation of another known kind reached the dispatch and failed there.
C11_Witness ==
    \E t \in TaskIds :
        /\ OtherKind(t)
        /\ task[t].st = "panicked"
        /\ task[t].stage = "dispatch"
        /\ task[t].res = "unimplemented operation"
        /\ Len(task[t].ranges) > 0

\* Every destination extent of the operation has both fields, and the byte
\* range an extent stands for, computed in the integers, ends inside the
\* partition buffer.
ExtentsDefined(op) ==
    \A i \in 1..Len(op.dst_extents) :
        IsSome(op.dst_extents[i].start_block) /\ IsSome(op.dst_extents[i].num_blocks)
MathInBounds(x, len) ==
    Unwrap(x.start_block) * BlockSize + Unwrap(x.num_blocks) * BlockSize <= len

\* C12: for all machine-width start_block, num_blocks and block_size, the
\* extent resolver grants a range only when start_block * block_size +
\* num_blocks * block_size, computed in the integers, is at most the buffer
\* length, and fails with the extent-out-of-bounds error otherwise; a
\* product or sum that wraps never yields a granted range.
C12_ExtentBoundsExact ==
    \A t \in TaskIds :
        (Ran(t) /\ task[t].stage \in {"extents", "dispatch"}
         /\ ExtentsDefined(OpOf(t)))
            => LET op == OpOf(t)
                   len == Unwrap(partition_len(t[1]))
               IN  /\ task[t].stage = "dispatch"
                        => /\ \A i \in 1..Len(op.dst_extents) :
                                 MathInBounds(op.dst_extents[i], len)
                           /\ \A i \in 1..Len(task[t].ranges) :
                                 task[t].ranges[i].off + task[t].ranges[i].len <= len
                   /\ (\E i \in 1..Len(op.dst_extents) :
                           ~MathInBounds(op.dst_extents[i], len))
                        => task[t].res = "extent exceeds partition size"

\* The bytes a buffer holds at the declared extents of an operation,
\* concatenated in declared order, and the total length the extents declare.
RECURSIVE ReadBack(_, _, _)
ReadBack(buf, exts, i) ==
    IF i > Len(exts) THEN <<>>
    ELSE SubSeq(buf, Unwrap(exts[i].start_block) * BlockSize + 1,
                (Unwrap(exts[i].start_block) + Unwrap(exts[i].num_blocks)) * BlockSize)
         \o ReadBack(buf, exts, i + 1)
RECURSIVE DeclLen(_, _)
DeclLen(exts, i) ==
    IF i > Len(exts) THEN 0
    ELSE Unwrap(exts[i].num_blocks) * BlockSize + DeclLen(exts, i + 1)
OwnDisjoint(exts) ==
    \A i, j \in 1..Len(exts) :
        i # j => ~Intersect(Unwrap(exts[i].start_block) * BlockSize,
                            (Unwrap(exts[i].start_block) + Unwrap(exts[i].num_blocks))
                                * BlockSize,
                            Unwrap(exts[j].start_block) * BlockSize,
                            (Unwrap(exts[j].start_block) + Unwrap(exts[j].num_blocks))
                                * BlockSize)
\* A Replace whose literal source has exactly the length of its in-bounds,
\* pairwise disjoint extents has succeeded, and no other operation of the
\* partition has written yet.
ExactReplaceDone(t) ==
    LET op == OpOf(t) IN
    /\ task[t].st = "done"
    /\ TypeFromI32(op.type) = Some("Replace")
    /\ SourceOk(op)
    /\ ExtentsDefined(op)
    /\ \A i \in 1..Len(op.dst_extents) :
          MathInBounds(op.dst_extents[i], Unwrap(partition_len(t[1])))
    /\ OwnDisjoint(op.dst_extents)
    /\ Unwrap(op.data_length) = DeclLen(op.dst_extents, 1)
    /\ \A o \in OpIds(t[1]) : o # t[2] => task[<<t[1], o>>].pos = 0

\* C13: after a Replace whose literal source buffer has exactly the total
\* length of its in-bounds, pairwise disjoint destination extents has
\* succeeded, the buffer contents at those extents, concatenated in declared
\* extent order, equal the source buffer.
C13_ReplaceRoundTrip ==
    \A t \in TaskIds :
        ExactReplaceDone(t)
            => ReadBack(Unwrap(files[NameOf(t[1])]), OpOf(t).dst_extents, 1)
                   = SourceOf(OpOf(t))

\* A four-byte source has been written to the two blocks of a partition,
\* the second block first.
C13_Witness ==
    \E t \in TaskIds :
        /\ ExactReplaceDone(t)
        /\ Len(OpOf(t).dst_extents) = 2
        /\ Unwrap(OpOf(t).dst_extents[1].start_block)
               > Unwrap(OpOf(t).dst_extents[2].start_block)
        /\ Len(SourceOf(OpOf(t))) = 2 * BlockSize
        /\ Len(Unwrap(files[NameOf(t[1])])) = 2 * BlockSize

\* The partitions the allow-list selects: all of them when it is empty,
\* else the ones it names.
IsSelected(p) ==
    Len(cmd.partitions) = 0
    \/ \E i \in 1..Len(cmd.partitions) : cmd.partitions[i] = NameOf(p)
\* The operations of a partition whose run_op has returned success.
Succeeded(p) ==
    {o \in OpIds(p) : Finished(<<p, o>>) /\ task[<<p, o>>].res = "Ok"}
CountsCompleted ==
    \A p \in PartIds :
        /\ progress[p] = Cardinality(Succeeded(p))
        /\ progress[p] <= Len(Partitions[p].operations)
        /\ (pc = "done" /\ result = Success /\ IsSelected(p))
               => progress[p] = Len(Partitions[p].operations)
CountsByOne ==
    \A p \in PartIds :
        \/ progress'[p] = progress[p]
        \/ /\ progress'[p] = progress[p] + 1
           /\ \E o \in OpIds(p) :
                 /\ task[<<p, o>>].st = "running" /\ task[<<p, o>>].res = "Ok"
                 /\ task[<<p, o>>].pos = Len(task[<<p, o>>].writes)
                 /\ task'[<<p, o>>].st = "done"
                 /\ \A o2 \in OpIds(p) :
                       o2 # o => task'[<<p, o2>>].st = task[<<p, o2>>].st

\* C14: the completed-count of each partition only increases, by exactly
\* one per operation and only after that operation's run_op has returned
\* success; it never exceeds the partition's number of operations, and it
\* equals that number for every selected partition when the run reports
\* success.
C14_CompletedCount == [](HasManifest => CountsCompleted) /\ [][CountsByOne]_vars

\* A run over two partitions has reported success with every operation of
\* both counted.
C14_Witness ==
    /\ pc = "done" /\ result = Success
    /\ Cardinality(PartIds) = 2
    /\ \A p \in PartIds :
          /\ IsSelected(p)
          /\ progress[p] = Len(Partitions[p].operations)
          /\ progress[p] >= 1

\* The run is about to open partition p; the opening of p has failed with
\* msg (the loop never moves past a partition that failed to open).
Opening(p) == pc = "loop" /\ cur <= Len(Selected) /\ Selected[cur] = p
OpenFailed(p, msg) ==
    /\ pc \in {"wait", "done"} /\ closure_res = Fail(msg)
    /\ cur <= Len(Selected) /\ Selected[cur] = p
NeverSubmitted(p) ==
    mapped[p] = "no" /\ \A o \in OpIds(p) : task[<<p, o>>].st = "none"
\* The step that opens p when a file exists at its output location, or when
\* it declares no size: it fails and leaves the files as they are.
OpenRefused ==
    \A p \in PartIds :
        (Opening(p) /\ pc' # "loop")
            => /\ IsNone(partition_len(p))
                   => /\ closure_res' = Fail("unable to determine output file size")
                      /\ files' = files
               /\ (IsSome(partition_len(p)) /\ IsSome(files[NameOf(p)]))
                   => /\ closure_res' = Fail("unable to open file for writing")
                      /\ files' = files
\* After the opening of p was refused, its file stays as it is.
RefusedFileKept ==
    \A p \in PartIds :
        (OpenFailed(p, "unable to open file for writing")
         \/ OpenFailed(p, "unable to determine output file size"))
            => files'[NameOf(p)] = files[NameOf(p)]
RefusedNeverSubmitted ==
    \A p \in PartIds :
        /\ OpenFailed(p, "unable to open file for writing")
               => NeverSubmitted(p) /\ IsSome(files[NameOf(p)])
        /\ OpenFailed(p, "unable to determine output file size")
               => NeverSubmitted(p) /\ files[NameOf(p)] \in {None, Some(Leftover)}
        /\ mapped[p] # "no" => IsSome(partition_len(p))

\* C15: if a file already exists at the output location of a selected
\* partition, opening that partition fails with an error, the existing
\* file's length and contents stay unchanged and no operation of the
\* partition is ever submitted; a partition that declares no size fails
\* before any file is created for it and before any of its operations is
\* submitted.
C15_ExistingFileRefused ==
    /\ [][OpenRefused /\ RefusedFileKept]_vars
    /\ [](HasManifest => RefusedNeverSubmitted)

\* The run has ended on the refusal to open its second partition, whose
\* file was there before, after a task of the first partition finished.
C15_Witness ==
    /\ pc = "done"
    /\ \E p \in PartIds :
          /\ OpenFailed(p, "unable to open file for writing")
          /\ files[NameOf(p)] = Some(Leftover)
          /\ Len(Partitions[p].operations) > 0
          /\ cur = 2
    /\ \E t \in TaskIds : Finished(t)

\* The failures of the first three steps of run_op, each stated on the
\* operation alone: the source range is missing or outside the blob; the
\* hash is checked and differs from the digest of the source bytes; the
\* extent resolver rejects the destination extents.
SourceErrors ==
    {"data_length not defined", "data_offset not defined",
     "data offset exceeds payload size", "panic: attempt to add with overflow"}
HashDiffers(op) ==
    /\ ~cmd.no_verify /\ IsSome(op.data_sha256_hash)
    /\ Sha256Digest(SourceOf(op)) # Unwrap(op.data_sha256_hash)
ExtentsOf(t) ==
    extract_dst_extents(OpOf(t), Unwrap(partition_len(t[1])), BlockSize, checks)

\* The order of the steps with the extents that the resolver rejects: run_op
\* stops at the first step that fails and reports its error, and nothing is
\* written unless the first three steps succeeded.
StepOrderOfResolver ==
    \A t \in TaskIds :
        Ran(t) =>
            LET op == OpOf(t) IN
            /\ ~SourceOk(op)
                   => task[t].stage = "source" /\ task[t].res \in SourceErrors
            /\ (SourceOk(op) /\ HashDiffers(op))
                   => task[t].stage = "verify" /\ task[t].res = "hash mismatch"
            /\ (SourceOk(op) /\ ~HashDiffers(op) /\ ExtentsOf(t).res # "Ok")
                   => task[t].stage = "extents" /\ task[t].res = ExtentsOf(t).res
            /\ (SourceOk(op) /\ ~HashDiffers(op) /\ ExtentsOf(t).res = "Ok")
                   => /\ task[t].stage = "dispatch"
                      /\ OtherKind(t) => task[t].res = "unimplemented operation"
                      /\ UnknownKind(t) => task[t].res = "invalid operation"
            /\ (task[t].writes # <<>> \/ task[t].pos > 0)
                   => SourceOk(op) /\ ~HashDiffers(op) /\ ExtentsOf(t).res = "Ok"

\* An extent of the operation lacks a field or ends, in the integers,
\* beyond the partition buffer.
ExtentOutOfBounds(t) ==
    \/ ~ExtentsDefined(OpOf(t))
    \/ \E i \in 1..Len(OpOf(t).dst_extents) :
          ~MathInBounds(OpOf(t).dst_extents[i], Unwrap(partition_len(t[1])))

\* C16: run_op slices the source, verifies the hash, resolves the extents
\* and dispatches on the kind, in this order; it stops at the first step
\* that fails and reports that step's error, so a source out of range is
\* reported before a hash mismatch, a hash mismatch before an out-of-bounds
\* extent, an out-of-bounds extent before an unsupported or unknown kind;
\* and nothing is written unless the first three steps succeeded.
C16_StepOrder ==
    \A t \in TaskIds :
        Ran(t) =>
            LET op == OpOf(t) IN
            /\ ~SourceOk(op)
                   => task[t].stage = "source" /\ task[t].res \in SourceErrors
            /\ (SourceOk(op) /\ HashDiffers(op))
                   => task[t].stage = "verify" /\ task[t].res = "hash mismatch"
            /\ (SourceOk(op) /\ ~HashDiffers(op) /\ ExtentOutOfBounds(t))
                   => task[t].stage = "extents"
            /\ (SourceOk(op) /\ ~HashDiffers(op) /\ ~ExtentOutOfBounds(t))
                   => /\ task[t].stage = "dispatch"
                      /\ OtherKind(t) => task[t].res = "unimplemented operation"
                      /\ UnknownKind(t) => task[t].res = "invalid operation"
            /\ (task[t].writes # <<>> \/ task[t].pos > 0)
                   => SourceOk(op) /\ ~HashDiffers(op) /\ ~ExtentOutOfBounds(t)

\* A submitted task has a buffer; a released buffer has no task left, and
\* was released only after the loop submitted every operation.
BufferOutlivesTasks ==
    \A p \in PartIds :
        /\ (\E o \in OpIds(p) : task[<<p, o>>].st # "none") => mapped[p] # "no"
        /\ (\E o \in OpIds(p) : task[<<p, o>>].st \in {"pending", "running"})
               => mapped[p] = "mapped"
        /\ mapped[p] = "unmapped" => \A o \in OpIds(p) : Finished(<<p, o>>)
\* A step that submits a task or writes a byte acts on a mapped buffer, and
\* a released buffer stays released.
BufferSteps ==
    \A t \in TaskIds :
        /\ (task[t].st = "none" /\ task'[t].st # "none") => mapped[t[1]] = "mapped"
        /\ task'[t].pos # task[t].pos => mapped[t[1]] = "mapped"
        /\ mapped[t[1]] = "unmapped"
               => /\ mapped'[t[1]] = "unmapped"
                  /\ files'[NameOf(t[1])] = files[NameOf(t[1])]

\* C17: the buffer of a partition is created before the first of its tasks
\* is submitted and is released only after every task submitted for the
\* partition has finished; no task ever writes to a released buffer.
C17_BufferLifetime ==
    /\ [](HasManifest => BufferOutlivesTasks)
    /\ [][BufferSteps]_vars

\* The loop has moved on from a partition, dropping its reference, while a
\* task of that partition is still writing to the buffer.
C17_Witness ==
    \E t \in TaskIds :
        /\ task[t].st = "running" /\ task[t].pos > 0
        /\ task[t].pos < Len(task[t].writes)
        /\ arc[t[1]] = 1
        /\ mapped[t[1]] = "mapped"
        /\ (cur > t[1] \/ pc \in {"wait", "done"})
        /\ \E t2 \in TaskIds : t2[1] = t[1] /\ Finished(t2)

\* The scope closure went through every selected partition: none failed to
\* open.
AllOpened == pc \in {"wait", "done"} /\ closure_res = Success
SubmittedPerSelection ==
    \A t \in TaskIds :
        /\ ~IsSelected(t[1]) => task[t].st = "none"
        /\ (AllOpened /\ IsSelected(t[1])) => task[t].st # "none"
\* A step submits at most one operation, and no operation is submitted a
\* second time or taken back.
SubmittedOnce ==
    /\ Cardinality({t \in TaskIds : task[t].st = "none" /\ task'[t].st # "none"}) <= 1
    /\ \A t \in TaskIds :
          /\ (task[t].st = "none" /\ task'[t].st # "none")
                 => task'[t].st = "pending" /\ arc'[t[1]] = arc[t[1]] + 1
          /\ task[t].st # "none"
                 => task'[t].st # "none"
                    /\ (task'[t].st = "pending" => task[t].st = "pending")

\* C18: in a run in which no partition fails to open, every operation of
\* every selected partition is submitted exactly once and no operation of an
\* unselected partition is ever submitted; the selected partitions are all
\* of them when the allow-list is empty and the ones it names otherwise.
C18_SelectedSubmittedOnce ==
    /\ [](HasManifest => SubmittedPerSelection)
    /\ [][SubmittedOnce]_vars

\* A run with an allow-list has ended with the operations of the listed
\* partition finished and the operation of the other partition never
\* submitted.
C18_Witness ==
    /\ pc = "done" /\ AllOpened
    /\ Len(cmd.partitions) > 0
    /\ \E t \in TaskIds : IsSelected(t[1]) /\ Finished(t)
    /\ \E t \in TaskIds : ~IsSelected(t[1]) /\ task[t].st = "none"

\* C19: the run returns its terminal result only after every submitted task
\* has finished: in no reachable state has the run terminated while a
\* submitted task is pending or running, also when the opening of a later
\* partition failed after tasks of earlier partitions were submitted.
C19_ReturnsAfterAllTasks ==
    pc = "done"
        => /\ IsSome(result)
           /\ \A t \in TaskIds : task[t].st \in {"none", "done", "panicked"}
           /\ \A p \in PartIds : mapped[p] \in {"no", "unmapped"}

\* The run has ended on the failure to open its second partition, with the
\* task of the first partition finished and its buffer released.
C19_Witness ==
    /\ pc = "done"
    /\ cur = 2
    /\ IsSome(closure_res) /\ closure_res # Success
    /\ result = closure_res
    /\ \E t \in TaskIds : t[1] = Selected[1] /\ task[t].st = "done"
                          /\ Len(task[t].writes) > 0

\* The byte addresses of the ranges handed to a task, in declared order.
RECURSIVE RangeAddrs(_, _)
RangeAddrs(ranges, i) ==
    IF i > Len(ranges) THEN <<>>
    ELSE [j \in 1..ranges[i].len |-> ranges[i].off + j - 1]
         \o RangeAddrs(ranges, i + 1)
\* The stream bytes of a task that land on byte b of the buffer.
LandsOn(t, b) ==
    {k \in 1..S(t) : RangeAddrs(task[t].ranges, 1)[k] = b}
Last(K) == CHOOSE k \in K : \A j \in K : j <= k
Alone(t) == \A o \in OpIds(t[1]) : o # t[2] => task[<<t[1], o>>].pos = 0

\* C20: a successful literal-stream write changes only bytes inside the
\* ranges it was handed, fills them in declared order with consecutive
\* stream bytes, and when the stream is shorter than their total length L
\* leaves the last L - bytes_read bytes of the last range as they were.
C20_WriteFrame ==
    \A t \in TaskIds :
        (WroteStream(t) /\ task[t].res = "Ok")
            => LET addrs == RangeAddrs(task[t].ranges, 1)
                   stream == ReaderOf(OpOf(t)).bytes
                   buf == Unwrap(files[NameOf(t[1])])
               IN  /\ S(t) <= L(t) /\ Len(addrs) = L(t)
                   /\ task[t].writes = [k \in 1..S(t) |-> <<addrs[k], stream[k]>>]
                   /\ task[t].pos = S(t)
                   /\ Alone(t) =>
                        \A b \in 0..Len(buf) - 1 :
                            buf[b + 1] = IF LandsOn(t, b) = {} THEN 0
                                         ELSE stream[Last(LandsOn(t, b))]

\* A stream one byte short of its three ranges has been written: the last
\* byte of the last range is as it was, the byte before it is the last
\* stream byte.
C20_Witness ==
    \E t \in TaskIds :
        /\ WroteStream(t) /\ task[t].res = "Ok" /\ Alone(t)
        /\ Len(task[t].ranges) >= 2
        /\ S(t) = L(t) - 1 /\ S(t) >= 2
        /\ LET addrs == RangeAddrs(task[t].ranges, 1)
               buf == Unwrap(files[NameOf(t[1])])
           IN  /\ addrs[L(t)] < Len(buf)
               /\ buf[addrs[L(t)] + 1] = 0
               /\ buf[addrs[S(t)] + 1] = ReaderOf(OpOf(t)).bytes[S(t)]
               /\ buf[addrs[S(t)] + 1] # 0

====
